---- MODULE Spec2Model ----
(***************************************************************************)
(* A model of the lima-sa virtual machine: the byte memory with its word   *)
(* encoding (main.go), the textual program loader (loader.go), the         *)
(* processor with its fetch/execute loop (Processor) and the command       *)
(* handlers (Command.Execute).                                             *)
(*                                                                         *)
(* Numbers are kept inside the signed 32-bit range throughout: a uint32 is *)
(* never formed as one integer, it is handled as four bytes or as a signed *)
(* value plus a case split.                                                *)
(***************************************************************************)
EXTENDS Integers, Sequences, FiniteSets, TLC

VARIABLES
    phase,          \* where main() is: "load", "reset", "run", "halt", "loadfail", "crash";
                    \* "api", "proc", "psw" while an API is called directly
    prog,           \* the program file: per line, the set of lines it may hold
    seen,           \* history: the lines readProgramFromFile has consumed
    lineNumber,     \* readProgramFromFile: lines consumed so far
    address,        \* readProgramFromFile: the write cursor
    initialIP,      \* readProgramFromFile: the entry point recorded by `e`
    entryPointSet,  \* readProgramFromFile: whether `e` was seen
    loadResult,     \* what readProgramFromFile returned: "none", "ok", "error"
    placed,         \* history: the words the loader wrote, [addr, word, line] in order
    mem,            \* Memory.data, kept sparse: address -> nonzero byte (absent = 0)
    psw,            \* Processor.psw: IP and the four flags
    registers,      \* Processor.registers
    error,          \* Processor.error
    stop,           \* Processor.stop
    output,         \* what IOUT / ROUT printed, in order
    last,           \* history: what the last executeNextInstruction did
    call            \* history: the last direct Memory call and its outcome

vars == <<phase, prog, seen, lineNumber, address, initialIP, entryPointSet, loadResult,
          placed, mem, psw, registers, error, stop, output, last, call>>

----------------------------------------------------------------------------
(* Bounds of the model *)

\* The number of direct WriteWord calls a behaviour of SpecMem makes
MaxWrites == 1

----------------------------------------------------------------------------
(* Program constants *)

MemorySize == 65536
NUM_REGISTERS == 2

\* Opcodes (type OpCode and its constants)
STOP == 0
IADD == 1
ISUB == 2
IMUL == 3
IDIV == 4
IIN == 17
IOUT == 18
ADDR == 20
SUBR == 21
MOVR == 22
RADD == 33
RSUB == 34
RMUL == 35
RDIV == 36
RIN == 49
ROUT == 50
JZ == 65
JG == 66
JL == 67
LOAD == 68
STORE == 69

----------------------------------------------------------------------------
(* Fixed-width arithmetic helpers *)

Pow2_8 == 2^8
Pow2_10 == 2^10
Pow2_12 == 2^12
Pow2_16 == 2^16
Pow2_22 == 2^22
Pow2_24 == 2^24
Pow2_30 == 2^30
MaxInt32 == (Pow2_30 - 1) + Pow2_30
MinInt32 == (-Pow2_30) - Pow2_30

RECURSIVE BitOr(_, _)
\* a | b for non-negative a, b
BitOr(a, b) ==
    IF a = 0 THEN b
    ELSE IF b = 0 THEN a
    ELSE (IF a % 2 = 1 \/ b % 2 = 1 THEN 1 ELSE 0) + 2 * BitOr(a \div 2, b \div 2)

RECURSIVE BitAnd(_, _)
\* a & b for non-negative a, b
BitAnd(a, b) ==
    IF a = 0 \/ b = 0 THEN 0
    ELSE (IF a % 2 = 1 /\ b % 2 = 1 THEN 1 ELSE 0) + 2 * BitAnd(a \div 2, b \div 2)

\* The four little-endian bytes of the 32-bit pattern of the int32 x
\* (binary.LittleEndian.PutUint32 of the reinterpreted value).
BytesOfInt32(x) ==
    LET y == IF x < 0 THEN (x + Pow2_30) + Pow2_30 ELSE x   \* x with bit 31 cleared
        top == (y \div Pow2_24) + (IF x < 0 THEN 128 ELSE 0)
    IN  <<y % Pow2_8, (y \div Pow2_8) % Pow2_8, (y \div Pow2_16) % Pow2_8, top>>

\* The int32 whose 32-bit pattern is the four little-endian bytes b
\* (binary.LittleEndian.Uint32 reinterpreted as int32).
Int32OfBytes(b) ==
    LET low == b[1] + Pow2_8 * b[2] + Pow2_16 * b[3]
    IN  IF b[4] < 128 THEN low + Pow2_24 * b[4]
        ELSE ((low + Pow2_24 * (b[4] - 128)) - Pow2_30) - Pow2_30

----------------------------------------------------------------------------
(* Word *)

Word(i, f, op, bb, a1, a2) ==
    [I |-> i, F |-> f, Opcode |-> op, BB |-> bb, Address1 |-> a1, Address2 |-> a2]

ZeroWord == Word(0, 0, 0, 0, 0, 0)

\* Word{D: Data{I: x}}
IntWord(x) == Word(x, 0, 0, 0, 0, 0)

\* Word{D: Data{F: f}}
FloatWord(f) == Word(0, f, 0, 0, 0, 0)

\* Word{Cmd: CommandData{...}}
CmdWord(op, bb, a1, a2) == Word(0, 0, op, bb, a1, a2)

----------------------------------------------------------------------------
(* Memory *)

EmptyMemory == <<>>

ByteAt(m, a) == IF a \in DOMAIN m THEN m[a] ELSE 0

\* m.data[a:a+4]
Bytes4(m, a) == <<ByteAt(m, a), ByteAt(m, a + 1), ByteAt(m, a + 2), ByteAt(m, a + 3)>>

\* copy(m.data[a:a+4], b)
Store4(m, a, b) ==
    LET new(x) == IF x \in a..(a + 3) THEN b[x - a + 1] ELSE ByteAt(m, x)
        dom == {x \in (DOMAIN m) \cup (a..(a + 3)) : new(x) # 0}
    IN  [x \in dom |-> new(x)]

IsValidAddress(a) == a >= 0 /\ a < MemorySize

\* Whether the slice expression m.data[a:a+4] is within the array; Go panics
\* on it otherwise.
SliceInRange(a) == a >= 0 /\ a + 4 <= MemorySize

\* The bytes WriteWord produces for a word.
EncodeWord(w) ==
    IF w.Opcode > 0
    THEN LET low == BitOr(BitOr(w.BB * Pow2_22, w.Address1 * Pow2_10), w.Address2)
         IN  <<low % Pow2_8, (low \div Pow2_8) % Pow2_8, (low \div Pow2_16) % Pow2_8,
               BitOr(w.Opcode, low \div Pow2_24) % Pow2_8>>
    ELSE BytesOfInt32(w.I)

\* DecodeWord testing the top byte as a signed byte
DecodeWordSignedTest(b) ==
    LET low == b[1] + Pow2_8 * b[2] + Pow2_16 * b[3]
    IN  IF b[4] > 0 /\ b[4] < 128
        THEN Word(0, 0, b[4], (low \div Pow2_22) % 4, (low \div Pow2_10) % Pow2_12,
                  low % Pow2_10)
        ELSE IntWord(Int32OfBytes(b))

\* The word ReadWord builds from four bytes.
DecodeWord(b) ==
    LET low == b[1] + Pow2_8 * b[2] + Pow2_16 * b[3]
    IN  IF b[4] > 0
        THEN Word(0, 0, b[4], (low \div Pow2_22) % 4, (low \div Pow2_10) % Pow2_12,
                  low % Pow2_10)
        ELSE IntWord(Int32OfBytes(b))

\* Memory.WriteWord: the outcome is the new memory, or a panic.
WriteWord(m, a, w) ==
    IF SliceInRange(a)
    THEN [panic |-> FALSE, err |-> "none", data |-> Store4(m, a, EncodeWord(w))]
    ELSE [panic |-> TRUE, err |-> "none", data |-> m]

\* ReadWord decoding D.I from all four bytes whatever the top byte is
ReadWordWholeInt(m, a) ==
    IF SliceInRange(a)
    THEN [panic |-> FALSE, err |-> "none",
          word |-> [DecodeWord(Bytes4(m, a)) EXCEPT !.I = Int32OfBytes(Bytes4(m, a))]]
    ELSE [panic |-> TRUE, err |-> "none", word |-> ZeroWord]

\* Memory.ReadWord: the outcome is the word read, or a panic.
ReadWord(m, a) ==
    IF SliceInRange(a)
    THEN [panic |-> FALSE, err |-> "none", word |-> DecodeWord(Bytes4(m, a))]
    ELSE [panic |-> TRUE, err |-> "none", word |-> ZeroWord]

----------------------------------------------------------------------------
(* int32 / uint32 / uint16 arithmetic as Go computes it *)

\* a + b wrapped to int32
Add32(a, b) ==
    IF a >= 0 /\ b >= 0
    THEN IF a > MaxInt32 - b THEN (a + MinInt32) + (b + MinInt32) ELSE a + b
    ELSE IF a < 0 /\ b < 0
    THEN IF a < MinInt32 - b THEN (a - MinInt32) + (b - MinInt32) ELSE a + b
    ELSE a + b

\* a - b wrapped to int32
Sub32(a, b) ==
    IF b = MinInt32
    THEN IF a >= 0 THEN (a + MinInt32) ELSE a - MinInt32
    ELSE Add32(a, -b)

\* a * b wrapped to int32, by byte-wise long multiplication modulo 2^32
Mul32(a, b) ==
    LET x == BytesOfInt32(a)
        y == BytesOfInt32(b)
        c0 == x[1] * y[1]
        c1 == x[1] * y[2] + x[2] * y[1] + (c0 \div Pow2_8)
        c2 == x[1] * y[3] + x[2] * y[2] + x[3] * y[1] + (c1 \div Pow2_8)
        c3 == x[1] * y[4] + x[2] * y[3] + x[3] * y[2] + x[4] * y[1] + (c2 \div Pow2_8)
    IN  Int32OfBytes(<<c0 % Pow2_8, c1 % Pow2_8, c2 % Pow2_8, c3 % Pow2_8>>)

\* a / b for int32 (truncating towards zero, b # 0; MinInt32 / -1 wraps)
Div32(a, b) ==
    LET pos(x, y) == x \div y     \* x >= 0, y > 0
    IN  IF b = MinInt32 THEN (IF a = MinInt32 THEN 1 ELSE 0)
        ELSE IF a = MinInt32
        THEN IF b = -1 \/ b = 1 THEN MinInt32
             ELSE IF b > 0 THEN -(pos(-(a + b), b)) - 1
             ELSE pos(-(a - b), -b) + 1
        ELSE IF a >= 0 /\ b > 0 THEN pos(a, b)
        ELSE IF a >= 0 /\ b < 0 THEN -pos(a, -b)
        ELSE IF a < 0 /\ b > 0 THEN -pos(-a, b)
        ELSE pos(-a, -b)

\* uint32(a) + uint32(b) > uint32(0x7FFFFFFF): the wrapped sum has bit 31 set
UAddAbove7F(a, b) == Add32(a, b) < 0

\* uint32(a) < uint32(b)
ULess32(a, b) ==
    IF (a < 0) = (b < 0) THEN a < b ELSE b < 0

\* uint16(x) for an int32 x
ToUint16(x) == x % Pow2_16

----------------------------------------------------------------------------
(* Processor *)

\* The processor as one record: the fields the handlers read and write.
Proc(m, w, r, e, s, o) ==
    [mem |-> m, psw |-> w, registers |-> r, error |-> e, stop |-> s, output |-> o]

\* What a handler (or a helper with an error return) hands back: the
\* processor as it left it, the error it returned ("none" for nil), whether
\* it panicked, and whether it assigned the instruction pointer.
Ok(p) == [p |-> p, err |-> "none", panic |-> FALSE, jumped |-> FALSE]
Fail(p, e) == [p |-> p, err |-> e, panic |-> FALSE, jumped |-> FALSE]
Panic(p) == [p |-> p, err |-> "none", panic |-> TRUE, jumped |-> FALSE]
Jumped(p) == [p |-> p, err |-> "none", panic |-> FALSE, jumped |-> TRUE]

ClearPSW(ip) ==
    [IP |-> ip, SignFlag |-> FALSE, CarryFlag |-> FALSE, OverflowFlag |-> FALSE,
     ZeroFlag |-> FALSE]

ZeroRegisters == [i \in 0..(NUM_REGISTERS - 1) |-> 0]

GetRegister(p, index) ==
    IF index >= NUM_REGISTERS
    THEN [err |-> "InvalidRegister", val |-> 0]
    ELSE [err |-> "none", val |-> p.registers[index]]

SetRegister(p, index, value) ==
    IF index >= NUM_REGISTERS
    THEN [err |-> "InvalidRegister", p |-> p]
    ELSE [err |-> "none", p |-> [p EXCEPT !.registers[index] = value]]

\* UpdateArithmeticFlags setting the sign flag for a zero result as well
UpdateArithmeticFlagsSignOnZero(p, result, hasCarry, hasOverflow) ==
    [p EXCEPT !.psw.SignFlag = (result <= 0), !.psw.ZeroFlag = (result = 0),
              !.psw.CarryFlag = hasCarry, !.psw.OverflowFlag = hasOverflow]

UpdateArithmeticFlags(p, result, hasCarry, hasOverflow) ==
    [p EXCEPT !.psw.SignFlag = (result < 0), !.psw.ZeroFlag = (result = 0),
              !.psw.CarryFlag = hasCarry, !.psw.OverflowFlag = hasOverflow]

\* UpdateFloatFlags leaving the carry and overflow flags as they were
UpdateFloatFlagsKeepingCarry(p, result) ==
    [p EXCEPT !.psw.SignFlag = (result < 0), !.psw.ZeroFlag = (result = 0)]

\* Float results are modelled by their sign and zero-ness only; see FloatWord.
UpdateFloatFlags(p, result) ==
    [p EXCEPT !.psw.SignFlag = (result < 0), !.psw.ZeroFlag = (result = 0),
              !.psw.CarryFlag = FALSE, !.psw.OverflowFlag = FALSE]

\* GetFlags with the overflow flag one bit too high
GetFlagsOverflowAtBit12(w) ==
    (IF w.SignFlag THEN 32768 ELSE 0) + (IF w.OverflowFlag THEN 4096 ELSE 0)
    + (IF w.ZeroFlag THEN 1024 ELSE 0) + (IF w.CarryFlag THEN 1 ELSE 0)

\* The packed 16-bit flag word (a uint16)
GetFlags(w) ==
    (IF w.SignFlag THEN 32768 ELSE 0) + (IF w.OverflowFlag THEN 2048 ELSE 0)
    + (IF w.ZeroFlag THEN 1024 ELSE 0) + (IF w.CarryFlag THEN 1 ELSE 0)

SetFlags(w, flags) ==
    [w EXCEPT !.SignFlag = (BitAnd(flags, 32768) # 0),
              !.OverflowFlag = (BitAnd(flags, 2048) # 0),
              !.ZeroFlag = (BitAnd(flags, 1024) # 0),
              !.CarryFlag = (BitAnd(flags, 1) # 0)]

\* The opcodes initializeCommandMap registers
CommandMapKeys ==
    {STOP, IADD, ISUB, IMUL, IDIV, IIN, IOUT, RADD, RSUB, RMUL, RDIV, RIN, ROUT,
     JZ, JG, JL, LOAD, STORE, ADDR, SUBR, MOVR}

\* effectiveAddr = uint16(int32(address) + regValue), unless GetRegister failed
Displaced(addr, r) ==
    IF r.err # "none" THEN [err |-> r.err, ea |-> 0]
    ELSE [err |-> "none", ea |-> ToUint16(Add32(addr, r.val))]

\* effectiveAddr = uint16(regValue), unless GetRegister failed
Indirect(r) ==
    IF r.err # "none" THEN [err |-> r.err, ea |-> 0]
    ELSE [err |-> "none", ea |-> ToUint16(r.val)]

\* calculateAddress taking R0, not the named register, in mode 11
calculateAddressAlwaysR0(p, bb, addr, regIndex) ==
    IF BitAnd(bb, 2) # 0
    THEN IF BitAnd(bb, 1) # 0
         THEN Displaced(addr, GetRegister(p, 0))
         ELSE Indirect(GetRegister(p, regIndex))
    ELSE IF BitAnd(bb, 1) # 0
    THEN Displaced(addr, GetRegister(p, 0))
    ELSE [err |-> "none", ea |-> addr]

\* calculateAddress: the error, or the effective address ea
calculateAddress(p, bb, addr, regIndex) ==
    IF BitAnd(bb, 2) # 0
    THEN IF BitAnd(bb, 1) # 0
         THEN Displaced(addr, GetRegister(p, regIndex))
         ELSE Indirect(GetRegister(p, regIndex))
    ELSE IF BitAnd(bb, 1) # 0
    THEN Displaced(addr, GetRegister(p, 0))
    ELSE [err |-> "none", ea |-> addr]

\* The register index a memory-operand handler takes from Address1
RegIndexOf(a) == a % 8

----------------------------------------------------------------------------
(* Command handlers.  c is the command's CommandData: [BB, Address1, Address2]. *)
(* A handler is written as a chain of operators, each taking what the      *)
(* previous step of the Go function computed: o is the pair of operands    *)
(* read, a an effective address, r a word read, w a write's outcome.       *)

\* The conditions the three jumps test on the packed flag word (a uint16)
JumpZeroCond(flags) == flags = 0
JumpGreaterCond(flags) == flags > 0
JumpLessCond(flags) == flags < 0

\* p.psw.IP = effectiveAddr, unless calculateAddress failed
JumpTo(p, a) ==
    IF a.err # "none" THEN Fail(p, a.err) ELSE Jumped([p EXCEPT !.psw.IP = a.ea])

\* The body shared by JumpZero, JumpGreater and JumpLess once the condition
\* has been evaluated
JumpBody(p, c, taken) ==
    IF taken THEN JumpTo(p, calculateAddress(p, c.BB, c.Address1, 0)) ELSE Ok(p)

JumpZeroExecute(p, c) == JumpBody(p, c, JumpZeroCond(GetFlags(p.psw)))
JumpGreaterExecute(p, c) == JumpBody(p, c, JumpGreaterCond(GetFlags(p.psw)))
JumpLessExecute(p, c) == JumpBody(p, c, JumpLessCond(GetFlags(p.psw)))

\* HaltExecute setting the stop flag and returning an error
HaltExecuteFailing(p, c) == Fail([p EXCEPT !.stop = TRUE], "halt")

HaltExecute(p, c) == Ok([p EXCEPT !.stop = TRUE])

NoOperands ==
    [err |-> "none", panic |-> FALSE, addr1 |-> 0, addr2 |-> 0,
     word1 |-> ZeroWord, word2 |-> ZeroWord]

OperandWords(addr1, addr2, r1, r2) ==
    IF r1.panic \/ r2.panic THEN [NoOperands EXCEPT !.panic = TRUE]
    ELSE [NoOperands EXCEPT !.addr1 = addr1, !.addr2 = addr2,
                            !.word1 = r1.word, !.word2 = r2.word]

OperandsAt(p, a1, a2) ==
    IF a1.err # "none" THEN [NoOperands EXCEPT !.err = a1.err]
    ELSE IF a2.err # "none" THEN [NoOperands EXCEPT !.err = a2.err]
    ELSE OperandWords(a1.ea, a2.ea, ReadWord(p.mem, a1.ea), ReadWord(p.mem, a2.ea))

\* The opening of every two-operand memory handler: both effective
\* addresses (with the register index of Address1), then both words.
ReadOperands(p, c) ==
    OperandsAt(p, calculateAddress(p, c.BB, c.Address1, RegIndexOf(c.Address1)),
                  calculateAddress(p, c.BB, c.Address2, RegIndexOf(c.Address1)))

\* err = p.memory.WriteWord(addr1, word1), then the flag update
StoreArithmetic(p, w, result, hasCarry, hasOverflow) ==
    IF w.panic THEN Panic(p)
    ELSE Ok(UpdateArithmeticFlags([p EXCEPT !.mem = w.data], result, hasCarry,
                                  hasOverflow))

\* word1.D.I = result has been assigned before the flags are computed, so
\* the overflow and carry tests below read the result where the source
\* writes word1.D.I.
AddIntStore(p, o, result) ==
    StoreArithmetic(p, WriteWord(p.mem, o.addr1, [o.word1 EXCEPT !.I = result]), result,
                    UAddAbove7F(result, o.word2.I),
                    (result > 0 /\ o.word2.I > 0 /\ result < 0)
                    \/ (result < 0 /\ o.word2.I < 0 /\ result > 0))

AddIntOn(p, o) ==
    IF o.err # "none" THEN Fail(p, o.err)
    ELSE IF o.panic THEN Panic(p)
    ELSE AddIntStore(p, o, Add32(o.word1.I, o.word2.I))

AddIntExecute(p, c) == AddIntOn(p, ReadOperands(p, c))

SubIntStore(p, o, result) ==
    StoreArithmetic(p, WriteWord(p.mem, o.addr1, [o.word1 EXCEPT !.I = result]), result,
                    ULess32(result, o.word2.I),
                    (result > 0 /\ o.word2.I < 0 /\ result < 0)
                    \/ (result < 0 /\ o.word2.I > 0 /\ result > 0))

SubIntOn(p, o) ==
    IF o.err # "none" THEN Fail(p, o.err)
    ELSE IF o.panic THEN Panic(p)
    ELSE SubIntStore(p, o, Sub32(o.word1.I, o.word2.I))

SubIntExecute(p, c) == SubIntOn(p, ReadOperands(p, c))

\* result / word2.D.I is an integer division: with a zero divisor Go panics,
\* after the destination has been written.
MulIntFlags(p, w, result, divisor) ==
    IF w.panic THEN Panic(p)
    ELSE IF divisor = 0 THEN Panic([p EXCEPT !.mem = w.data])
    ELSE Ok(UpdateArithmeticFlags([p EXCEPT !.mem = w.data], result, FALSE,
                                  Div32(result, divisor) # result))

MulIntStore(p, o, result) ==
    MulIntFlags(p, WriteWord(p.mem, o.addr1, [o.word1 EXCEPT !.I = result]), result,
                o.word2.I)

MulIntOn(p, o) ==
    IF o.err # "none" THEN Fail(p, o.err)
    ELSE IF o.panic THEN Panic(p)
    ELSE MulIntStore(p, o, Mul32(o.word1.I, o.word2.I))

MulIntExecute(p, c) == MulIntOn(p, ReadOperands(p, c))

DivIntStore(p, o, result) ==
    StoreArithmetic(p, WriteWord(p.mem, o.addr1, [o.word1 EXCEPT !.I = result]), result,
                    FALSE, FALSE)

\* DivIntOn storing a zero quotient where the divisor is zero
DivIntOnUnguarded(p, o) ==
    IF o.err # "none" THEN Fail(p, o.err)
    ELSE IF o.panic THEN Panic(p)
    ELSE IF o.word2.I = 0 THEN DivIntStore(p, o, 0)
    ELSE DivIntStore(p, o, Div32(o.word1.I, o.word2.I))

DivIntOn(p, o) ==
    IF o.err # "none" THEN Fail(p, o.err)
    ELSE IF o.panic THEN Panic(p)
    ELSE IF o.word2.I = 0 THEN Fail([p EXCEPT !.error = TRUE], "division by zero")
    ELSE DivIntStore(p, o, Div32(o.word1.I, o.word2.I))

DivIntExecute(p, c) == DivIntOn(p, ReadOperands(p, c))

\* float32 values are represented by an integer number of halves (7 is 3.5).
FAdd(a, b) == a + b
FSub(a, b) == a - b
FMul(a, b) == (a * b) \div 2
FDiv(a, b) == (2 * a) \div b

\* err = p.memory.WriteWord(addr1, word1), then p.UpdateFloatFlags(result)
StoreFloat(p, w, result) ==
    IF w.panic THEN Panic(p)
    ELSE Ok(UpdateFloatFlags([p EXCEPT !.mem = w.data], result))

FloatStore(p, o, result) ==
    StoreFloat(p, WriteWord(p.mem, o.addr1, [o.word1 EXCEPT !.F = result]), result)

AddFloatOn(p, o) ==
    IF o.err # "none" THEN Fail(p, o.err)
    ELSE IF o.panic THEN Panic(p)
    ELSE FloatStore(p, o, FAdd(o.word1.F, o.word2.F))

AddFloatExecute(p, c) == AddFloatOn(p, ReadOperands(p, c))

SubFloatOn(p, o) ==
    IF o.err # "none" THEN Fail(p, o.err)
    ELSE IF o.panic THEN Panic(p)
    ELSE FloatStore(p, o, FSub(o.word1.F, o.word2.F))

SubFloatExecute(p, c) == SubFloatOn(p, ReadOperands(p, c))

MulFloatOn(p, o) ==
    IF o.err # "none" THEN Fail(p, o.err)
    ELSE IF o.panic THEN Panic(p)
    ELSE FloatStore(p, o, FMul(o.word1.F, o.word2.F))

MulFloatExecute(p, c) == MulFloatOn(p, ReadOperands(p, c))

DivFloatOn(p, o) ==
    IF o.err # "none" THEN Fail(p, o.err)
    ELSE IF o.panic THEN Panic(p)
    ELSE IF o.word2.F = 0 THEN Fail([p EXCEPT !.error = TRUE], "division by zero")
    ELSE FloatStore(p, o, FDiv(o.word1.F, o.word2.F))

DivFloatExecute(p, c) == DivFloatOn(p, ReadOperands(p, c))

\* The single effective address of the I/O handlers
OperandAddress(p, c) == calculateAddress(p, c.BB, c.Address1, RegIndexOf(c.Address1))

\* err = p.memory.WriteWord(addr, word) as the last step of a handler
StoreOnly(p, w) == IF w.panic THEN Panic(p) ELSE Ok([p EXCEPT !.mem = w.data])

StoreAt(p, a, word) ==
    IF a.err # "none" THEN Fail(p, a.err)
    ELSE StoreOnly(p, WriteWord(p.mem, a.ea, word))

\* InputIntExecute advancing the instruction pointer before it reports a
\* line that is not an integer
InputIntExecuteAdvancingOnBadInput(p, c, inp) ==
    IF ~inp.ok
    THEN Fail([p EXCEPT !.psw.IP = (@ + 1) % MemorySize], "invalid integer input")
    ELSE StoreAt(p, OperandAddress(p, c), IntWord(inp.v))

\* inp is the line read from stdin: [ok |-> it parses, v |-> its value]
InputIntExecute(p, c, inp) ==
    IF ~inp.ok THEN Fail(p, "invalid integer input")
    ELSE StoreAt(p, OperandAddress(p, c), IntWord(inp.v))

InputFloatExecute(p, c, inp) ==
    IF ~inp.ok THEN Fail(p, "invalid float input")
    ELSE StoreAt(p, OperandAddress(p, c), FloatWord(inp.v))

PrintInt(p, r) ==
    IF r.panic THEN Panic(p)
    ELSE Ok([p EXCEPT !.output = Append(@, [kind |-> "int", v |-> r.word.I])])

OutputIntAt(p, a) ==
    IF a.err # "none" THEN Fail(p, a.err) ELSE PrintInt(p, ReadWord(p.mem, a.ea))

OutputIntExecute(p, c) == OutputIntAt(p, OperandAddress(p, c))

PrintFloat(p, r) ==
    IF r.panic THEN Panic(p)
    ELSE Ok([p EXCEPT !.output = Append(@, [kind |-> "float", v |-> r.word.F])])

OutputFloatAt(p, a) ==
    IF a.err # "none" THEN Fail(p, a.err) ELSE PrintFloat(p, ReadWord(p.mem, a.ea))

OutputFloatExecute(p, c) == OutputFloatAt(p, OperandAddress(p, c))

\* The processor, or the error, a SetRegister call leaves
AfterSet(p, s) == IF s.err # "none" THEN Fail(p, s.err) ELSE Ok(s.p)

\* LoadRegisterFrom updating the flags from the value loaded
LoadRegisterFromUpdatingFlags(p, c, r) ==
    IF r.panic THEN Panic(p)
    ELSE IF SetRegister(p, RegIndexOf(c.Address1), r.word.I).err # "none"
    THEN Fail(p, "InvalidRegister")
    ELSE Ok(UpdateArithmeticFlags(SetRegister(p, RegIndexOf(c.Address1), r.word.I).p,
                                  r.word.I, FALSE, FALSE))

LoadRegisterFrom(p, c, r) ==
    IF r.panic THEN Panic(p)
    ELSE AfterSet(p, SetRegister(p, RegIndexOf(c.Address1), r.word.I))

LoadRegisterExecute(p, c) == LoadRegisterFrom(p, c, ReadWord(p.mem, c.Address2))

StoreRegisterValue(p, c, g) ==
    IF g.err # "none" THEN Fail(p, g.err)
    ELSE StoreOnly(p, WriteWord(p.mem, c.Address1, IntWord(g.val)))

StoreRegisterExecute(p, c) == StoreRegisterValue(p, c, GetRegister(p, RegIndexOf(c.Address2)))

\* p.SetRegister(regDest, result), then the flag update
SetArithmetic(p, s, result, hasCarry, hasOverflow) ==
    IF s.err # "none" THEN Fail(p, s.err)
    ELSE Ok(UpdateArithmeticFlags(s.p, result, hasCarry, hasOverflow))

AddRegistersSet(p, c, val1, val2, result) ==
    SetArithmetic(p, SetRegister(p, RegIndexOf(c.Address1), result), result,
                  UAddAbove7F(val1, val2),
                  (val1 > 0 /\ val2 > 0 /\ result < 0) \/ (val1 < 0 /\ val2 < 0 /\ result > 0))

AddRegistersOn(p, c, g1, g2) ==
    IF g1.err # "none" THEN Fail(p, g1.err)
    ELSE IF g2.err # "none" THEN Fail(p, g2.err)
    ELSE AddRegistersSet(p, c, g1.val, g2.val, Add32(g1.val, g2.val))

AddRegistersExecute(p, c) ==
    AddRegistersOn(p, c, GetRegister(p, RegIndexOf(c.Address1)),
                         GetRegister(p, RegIndexOf(c.Address2)))

SubtractRegistersSet(p, c, val1, val2, result) ==
    SetArithmetic(p, SetRegister(p, RegIndexOf(c.Address1), result), result,
                  ULess32(val1, val2),
                  (val1 > 0 /\ val2 < 0 /\ result < 0) \/ (val1 < 0 /\ val2 > 0 /\ result > 0))

SubtractRegistersOn(p, c, g1, g2) ==
    IF g1.err # "none" THEN Fail(p, g1.err)
    ELSE IF g2.err # "none" THEN Fail(p, g2.err)
    ELSE SubtractRegistersSet(p, c, g1.val, g2.val, Sub32(g1.val, g2.val))

SubtractRegistersExecute(p, c) ==
    SubtractRegistersOn(p, c, GetRegister(p, RegIndexOf(c.Address1)),
                              GetRegister(p, RegIndexOf(c.Address2)))

\* MoveRegisterValue dropping the error of SetRegister
MoveRegisterValueUnchecked(p, c, g) ==
    IF g.err # "none" THEN Fail(p, g.err)
    ELSE Ok(SetRegister(p, RegIndexOf(c.Address1), g.val).p)

MoveRegisterValue(p, c, g) ==
    IF g.err # "none" THEN Fail(p, g.err)
    ELSE AfterSet(p, SetRegister(p, RegIndexOf(c.Address1), g.val))

MoveRegisterExecute(p, c) == MoveRegisterValue(p, c, GetRegister(p, RegIndexOf(c.Address2)))

\* cmd.Execute(p) for the command the constructor of `op` builds
Execute(op, p, c, inp) ==
    CASE op = STOP -> HaltExecute(p, c)
      [] op = IADD -> AddIntExecute(p, c)
      [] op = ISUB -> SubIntExecute(p, c)
      [] op = IMUL -> MulIntExecute(p, c)
      [] op = IDIV -> DivIntExecute(p, c)
      [] op = IIN -> InputIntExecute(p, c, inp)
      [] op = IOUT -> OutputIntExecute(p, c)
      [] op = RADD -> AddFloatExecute(p, c)
      [] op = RSUB -> SubFloatExecute(p, c)
      [] op = RMUL -> MulFloatExecute(p, c)
      [] op = RDIV -> DivFloatExecute(p, c)
      [] op = RIN -> InputFloatExecute(p, c, inp)
      [] op = ROUT -> OutputFloatExecute(p, c)
      [] op = JZ -> JumpZeroExecute(p, c)
      [] op = JG -> JumpGreaterExecute(p, c)
      [] op = JL -> JumpLessExecute(p, c)
      [] op = LOAD -> LoadRegisterExecute(p, c)
      [] op = STORE -> StoreRegisterExecute(p, c)
      [] op = ADDR -> AddRegistersExecute(p, c)
      [] op = SUBR -> SubtractRegistersExecute(p, c)
      [] op = MOVR -> MoveRegisterExecute(p, c)

\* AdvanceIP moving on by the four bytes of a word
AdvanceIPByWord(currentIP) == (currentIP + 4) % MemorySize

\* The instruction pointer of the next instruction
AdvanceIP(currentIP) == (currentIP + 1) % MemorySize

\* The outcome of executeNextInstruction: besides the processor p and the
\* error returned, the word fetched, whether a handler was run (ran), whether
\* that handler assigned the instruction pointer (jumped) and the instruction
\* pointer as the handler left it (handlerIP).
Outcome(p, err, panic, ran, jumped, word, handlerIP) ==
    [p |-> p, err |-> err, panic |-> panic, ran |-> ran, jumped |-> jumped,
     word |-> word, handlerIP |-> handlerIP]

\* AfterExecute moving the instruction pointer on after STOP as well
AfterExecuteAlwaysAdvancing(currentIP, word, x) ==
    IF x.panic \/ x.err # "none"
    THEN Outcome(x.p, x.err, x.panic, TRUE, FALSE, word, x.p.psw.IP)
    ELSE Outcome([x.p EXCEPT !.stop = (word.Opcode = STOP) \/ @,
                             !.psw.IP = AdvanceIP(currentIP)],
                 "none", FALSE, TRUE, x.jumped, word, x.p.psw.IP)

\* After cmd.Execute returned x: the error is passed on, or STOP sets the
\* stop flag and every other opcode moves the instruction pointer on.
AfterExecute(currentIP, word, x) ==
    IF x.panic \/ x.err # "none"
    THEN Outcome(x.p, x.err, x.panic, TRUE, FALSE, word, x.p.psw.IP)
    ELSE Outcome(IF word.Opcode = STOP
                 THEN [x.p EXCEPT !.stop = TRUE]
                 ELSE [x.p EXCEPT !.psw.IP = AdvanceIP(currentIP)],
                 "none", FALSE, TRUE, x.jumped, word, x.p.psw.IP)

\* Dispatch with opcode 0 taken out of the command map
DispatchWithoutZero(p, inp, word) ==
    IF word.Opcode \notin CommandMapKeys \ {0}
    THEN Outcome(p, "invalid opcode", FALSE, FALSE, FALSE, word, p.psw.IP)
    ELSE AfterExecute(p.psw.IP, word,
                      Execute(word.Opcode, p,
                              [BB |-> word.BB, Address1 |-> word.Address1,
                               Address2 |-> word.Address2], inp))

\* The lookup in commandMap and the call of the handler
Dispatch(p, inp, word) ==
    IF word.Opcode \notin CommandMapKeys
    THEN Outcome(p, "invalid opcode", FALSE, FALSE, FALSE, word, p.psw.IP)
    ELSE AfterExecute(p.psw.IP, word,
                      Execute(word.Opcode, p,
                              [BB |-> word.BB, Address1 |-> word.Address1,
                               Address2 |-> word.Address2], inp))

\* Fetched treating an opcode outside the command map as STOP
FetchedStoppingOnUnknown(p, inp, r) ==
    IF r.panic THEN Outcome(p, "none", TRUE, FALSE, FALSE, ZeroWord, p.psw.IP)
    ELSE IF r.word.Opcode \notin CommandMapKeys
    THEN Outcome([p EXCEPT !.stop = TRUE], "none", FALSE, FALSE, FALSE, r.word, p.psw.IP)
    ELSE Dispatch(p, inp, r.word)

Fetched(p, inp, r) ==
    IF r.panic THEN Outcome(p, "none", TRUE, FALSE, FALSE, ZeroWord, p.psw.IP)
    ELSE Dispatch(p, inp, r.word)

\* executeNextInstruction leaving IP where a taken jump put it
executeNextInstructionKeepingJump(p, inp) ==
    IF ~IsValidAddress(p.psw.IP)
    THEN Outcome(p, "invalid instruction pointer", FALSE, FALSE, FALSE, ZeroWord, p.psw.IP)
    ELSE LET r == Fetched(p, inp, ReadWord(p.mem, p.psw.IP))
         IN  IF r.jumped THEN [r EXCEPT !.p.psw.IP = r.handlerIP] ELSE r

\* Processor.executeNextInstruction
executeNextInstruction(p, inp) ==
    IF ~IsValidAddress(p.psw.IP)
    THEN Outcome(p, "invalid instruction pointer", FALSE, FALSE, FALSE, ZeroWord, p.psw.IP)
    ELSE Fetched(p, inp, ReadWord(p.mem, p.psw.IP))

----------------------------------------------------------------------------
(* The program file and readProgramFromFile *)

\* A line of the file after comment stripping and field splitting: the
\* directive d, the number n of fields after it, whether those fields are
\* numerals of the base the directive parses them in (wf), and their values.
DirA(v) == [d |-> "a", n |-> 1, wf |-> TRUE, v |-> v]
DirE(v) == [d |-> "e", n |-> 1, wf |-> TRUE, v |-> v]
DirI(v) == [d |-> "i", n |-> 1, wf |-> TRUE, v |-> v]
DirR(v) == [d |-> "r", n |-> 1, wf |-> TRUE, v |-> v]
DirK(op, bb, a1, a2) ==
    [d |-> "k", n |-> 4, wf |-> TRUE, op |-> op, bb |-> bb, a1 |-> a1, a2 |-> a2]
DirS == [d |-> "s", n |-> 0, wf |-> TRUE]
DirBlank == [d |-> "", n |-> 0, wf |-> TRUE]
DirOther == [d |-> "x", n |-> 0, wf |-> TRUE]

\* strconv.ParseInt(s, base, bitSize) succeeds
ParseIntOK(l, v, bitSize) ==
    l.wf /\ (IF bitSize = 32 THEN v >= MinInt32 /\ v <= MaxInt32
             ELSE v >= -(2^(bitSize - 1)) /\ v <= 2^(bitSize - 1) - 1)

\* strconv.ParseUint(s, base, bitSize) succeeds
ParseUintOK(l, v, bitSize) == l.wf /\ v >= 0 /\ v <= 2^bitSize - 1

isValidOpcode(opcode) == opcode <= 69  \* 0x45
isValidBB(bb) == bb <= 3
isValidAddress(addr) == addr < MemorySize

cpuVars == <<psw, registers, error, stop, output, last>>

\* The lines the file may hold at the scanner's position
NextLines == IF lineNumber < Len(prog) THEN prog[lineNumber + 1] ELSE {}

\* scanner.Scan() delivers the next line, l
Scan(l) ==
    /\ phase = "load" /\ l \in NextLines
    /\ seen' = Append(seen, l)
    /\ lineNumber' = lineNumber + 1
    /\ UNCHANGED <<prog, call>>
    /\ UNCHANGED cpuVars

\* LoadError with main going on to Reset and Run all the same
LoadErrorThenReset ==
    /\ phase' = "reset"
    /\ loadResult' = [status |-> "error", line |-> lineNumber + 1, ip |-> 0]
    /\ UNCHANGED <<address, initialIP, entryPointSet, placed, mem>>

\* return 0, &CommandError{LineNumber: lineNumber, ...}
LoadError ==
    /\ phase' = "loadfail"
    /\ loadResult' = [status |-> "error", line |-> lineNumber + 1, ip |-> 0]
    /\ UNCHANGED <<address, initialIP, entryPointSet, placed, mem>>

\* The loop goes on to the next line
LoadContinue == UNCHANGED <<phase, loadResult>>

\* memory.WriteWord(address, word); address++
LoadWrite(word) ==
    LET w == WriteWord(mem, address, word)
    IN  IF w.panic
        THEN /\ phase' = "crash"
             /\ UNCHANGED <<address, initialIP, entryPointSet, loadResult, placed, mem>>
        ELSE /\ mem' = w.data
             /\ address' = address + 1
             /\ placed' = Append(placed, [addr |-> address, word |-> word,
                                           line |-> lineNumber + 1])
             /\ UNCHANGED <<initialIP, entryPointSet>>
             /\ LoadContinue

LoadBlank(l) ==
    /\ Scan(l) /\ l.d = ""
    /\ UNCHANGED <<address, initialIP, entryPointSet, placed, mem>>
    /\ LoadContinue

LoadA(l) ==
    /\ Scan(l) /\ l.d = "a"
    /\ IF l.n < 1 \/ ~ParseIntOK(l, l.v, 32) \/ ~IsValidAddress(l.v)
       THEN LoadError
       ELSE /\ address' = l.v
            /\ UNCHANGED <<initialIP, entryPointSet, placed, mem>>
            /\ LoadContinue

LoadE(l) ==
    /\ Scan(l) /\ l.d = "e"
    /\ IF l.n < 1 \/ ~ParseIntOK(l, l.v, 16) \/ ~IsValidAddress(l.v)
       THEN LoadError
       ELSE /\ initialIP' = l.v
            /\ entryPointSet' = TRUE
            /\ UNCHANGED <<address, placed, mem>>
            /\ LoadContinue

LoadI(l) ==
    /\ Scan(l) /\ l.d = "i"
    /\ IF l.n < 1 \/ ~ParseIntOK(l, l.v, 32)
       THEN LoadError
       ELSE LoadWrite(IntWord(l.v))

LoadR(l) ==
    /\ Scan(l) /\ l.d = "r"
    /\ IF l.n < 1 \/ ~l.wf
       THEN LoadError
       ELSE LoadWrite(FloatWord(l.v))

LoadK(l) ==
    /\ Scan(l) /\ l.d = "k"
    /\ IF \/ l.n < 4
          \/ ~ParseUintOK(l, l.op, 8) \/ ~isValidOpcode(l.op)
          \/ ~ParseUintOK(l, l.bb, 8) \/ ~isValidBB(l.bb)
          \/ ~ParseUintOK(l, l.a1, 16) \/ ~isValidAddress(l.a1)
          \/ ~ParseUintOK(l, l.a2, 16) \/ ~isValidAddress(l.a2)
       THEN LoadError
       ELSE LoadWrite(CmdWord(l.op, l.bb, l.a1, l.a2))

\* LoadS returning initialIP whether or not `e` was seen
LoadSWithoutEntryCheck(l) ==
    /\ Scan(l) /\ l.d = "s"
    /\ phase' = "reset"
    /\ loadResult' = [status |-> "ok", line |-> lineNumber + 1, ip |-> initialIP]
    /\ UNCHANGED <<address, initialIP, entryPointSet, placed, mem>>

LoadS(l) ==
    /\ Scan(l) /\ l.d = "s"
    /\ IF ~entryPointSet
       THEN LoadError
       ELSE /\ phase' = "reset"
            /\ loadResult' = [status |-> "ok", line |-> lineNumber + 1, ip |-> initialIP]
            /\ UNCHANGED <<address, initialIP, entryPointSet, placed, mem>>

LoadOther(l) ==
    /\ Scan(l) /\ l.d \notin {"", "a", "e", "i", "r", "k", "s"}
    /\ LoadError

\* scanner.Scan() returns false: the file ended without an `s` line
LoadEOF ==
    /\ phase = "load" /\ lineNumber = Len(prog)
    /\ phase' = "loadfail"
    /\ loadResult' = [status |-> "error", line |-> lineNumber, ip |-> 0]
    /\ UNCHANGED <<prog, seen, lineNumber, address, initialIP, entryPointSet, placed,
                   mem, call>>
    /\ UNCHANGED cpuVars

----------------------------------------------------------------------------
(* main: Reset, then Run *)

P == Proc(mem, psw, registers, error, stop, output)

NoLast ==
    [valid |-> FALSE, ip |-> 0, word |-> ZeroWord, topByte |-> 0, ran |-> FALSE,
     jumped |-> FALSE, handlerIP |-> 0, err |-> "none", panic |-> FALSE,
     prevOpcode |-> -1,
     pre |-> Proc(EmptyMemory, ClearPSW(0), ZeroRegisters, FALSE, FALSE, <<>>)]

NoCall == [op |-> "none"]

\* Reset leaving the registers as they are
ResetKeepingRegisters(p, ip) ==
    IF ~IsValidAddress(ip)
    THEN [p EXCEPT !.error = TRUE]
    ELSE [p EXCEPT !.psw = ClearPSW(ip), !.error = FALSE, !.stop = FALSE]

\* Processor.Reset
Reset(p, ip) ==
    IF ~IsValidAddress(ip)
    THEN [p EXCEPT !.error = TRUE]
    ELSE [p EXCEPT !.psw = ClearPSW(ip), !.error = FALSE, !.stop = FALSE,
                   !.registers = ZeroRegisters]

SetProc(p) ==
    /\ mem' = p.mem
    /\ psw' = p.psw
    /\ registers' = p.registers
    /\ error' = p.error
    /\ stop' = p.stop
    /\ output' = p.output

\* main: processor.Reset(initialIP) with the loader's result
DoReset ==
    /\ phase = "reset"
    /\ SetProc(Reset(P, loadResult.ip))
    /\ phase' = "run"
    /\ UNCHANGED <<prog, seen, lineNumber, address, initialIP, entryPointSet, loadResult,
                   placed, last, call>>

\* What stdin may deliver to IIN / RIN
Inputs == {[ok |-> TRUE, v |-> 5], [ok |-> TRUE, v |-> -1], [ok |-> FALSE, v |-> 0]}

\* Iteration leaving the error flag as the handler left it
IterationWithoutErrorFlag(r) ==
    /\ SetProc(r.p)
    /\ phase' = IF r.panic THEN "crash" ELSE "run"
    /\ last' = [valid |-> TRUE, ip |-> psw.IP, word |-> r.word,
                topByte |-> ByteAt(mem, psw.IP + 3), ran |-> r.ran,
                jumped |-> r.jumped, handlerIP |-> r.handlerIP, err |-> r.err,
                panic |-> r.panic,
                prevOpcode |-> IF last.valid /\ last.ran THEN last.word.Opcode ELSE -1,
                pre |-> P]

\* One iteration of the loop of Processor.Run, r being what
\* executeNextInstruction returned
Iteration(r) ==
    /\ SetProc(IF r.err # "none" THEN [r.p EXCEPT !.error = TRUE] ELSE r.p)
    /\ phase' = IF r.panic THEN "crash" ELSE "run"
    /\ last' = [valid |-> TRUE, ip |-> psw.IP, word |-> r.word,
                topByte |-> ByteAt(mem, psw.IP + 3), ran |-> r.ran,
                jumped |-> r.jumped, handlerIP |-> r.handlerIP, err |-> r.err,
                panic |-> r.panic,
                prevOpcode |-> IF last.valid /\ last.ran THEN last.word.Opcode ELSE -1,
                pre |-> P]

Step(inp) ==
    /\ phase = "run" /\ ~stop /\ ~error
    /\ Iteration(executeNextInstruction(P, inp))
    /\ UNCHANGED <<prog, seen, lineNumber, address, initialIP, entryPointSet, loadResult,
                   placed, call>>

\* Processor.Run returns
RunExit ==
    /\ phase = "run" /\ (stop \/ error)
    /\ phase' = "halt"
    /\ UNCHANGED <<prog, seen, lineNumber, address, initialIP, entryPointSet, loadResult,
                   placed, mem, call>>
    /\ UNCHANGED cpuVars

----------------------------------------------------------------------------
(* Direct calls of the Memory API *)

\* m.WriteWord(a, w)
ApiWriteWord(a, w) ==
    /\ phase = "api"
    /\ Len(seen) < MaxWrites
    /\ LET r == WriteWord(mem, a, w)
       IN  /\ mem' = r.data
           /\ phase' = IF r.panic THEN "crash" ELSE "api"
           /\ call' = [op |-> "WriteWord", addr |-> a, word |-> w, panic |-> r.panic,
                       err |-> r.err, before |-> mem]
    /\ seen' = Append(seen, a)
    /\ UNCHANGED <<prog, lineNumber, address, initialIP, entryPointSet, loadResult, placed>>
    /\ UNCHANGED cpuVars

\* m.ReadWord(a)
ApiReadWord(a) ==
    /\ phase = "api"
    /\ call.op # "ReadWord"
    /\ LET r == ReadWord(mem, a)
       IN  /\ phase' = IF r.panic THEN "crash" ELSE "api"
           /\ call' = [op |-> "ReadWord", addr |-> a, word |-> r.word, panic |-> r.panic,
                       err |-> r.err, before |-> mem,
                       written |-> IF call.op = "WriteWord" /\ call.addr = a
                                   THEN <<call.word>> ELSE <<>>]
    /\ UNCHANGED <<prog, seen, lineNumber, address, initialIP, entryPointSet, loadResult,
                   placed, mem>>
    /\ UNCHANGED cpuVars

----------------------------------------------------------------------------
(* The files and the inputs the model is run on *)

\* Scenario S1 of the specification
S1File ==
    <<{DirA(256)}, {DirI(3)}, {DirI(4)}, {DirA(0)}, {DirK(IADD, 0, 256, 257)},
      {DirK(IOUT, 0, 256, 0)}, {DirK(STOP, 0, 0, 0)}, {DirE(0)}, {DirS}>>

\* Two data words, each at an address of its own, and an instruction at the
\* entry point followed by one more opcode byte.
DataValues1 == {3, 4, -1, Pow2_24}
DataValues2 == {0, 1, 3, 4}
FirstInstructions ==
    {DirK(op, bb, 256, 260) : op \in CommandMapKeys, bb \in 0..3}
    \cup {DirK(op, 0, 256, 256) : op \in {IADD, ISUB}}
    \cup {DirK(op, bb, 261, 257) : op \in {IADD, LOAD, MOVR, STORE}, bb \in {0, 2}}
    \cup {DirK(LOAD, 0, 8, 256)}
    \cup {DirI(7), DirI(-1)}
SecondOpcodes == {STOP, IADD, JZ, JG, JL, 5, 80}
WindowFile ==
    <<{DirA(256)}, {DirI(v) : v \in DataValues1}, {DirA(260)},
      {DirI(v) : v \in DataValues2}, {DirA(512)}, FirstInstructions, {DirA(516)},
      {DirI(b) : b \in SecondOpcodes}, {DirE(512)}, {DirS}>>

\* Files that exercise the loader's own checks
LoaderFile ==
    <<{DirBlank, DirOther, DirS},
      {DirA(256), DirA(65533), DirA(65532), DirA(-1), DirA(65536)},
      {DirR(7), DirI(5), DirK(IADD, 0, 256, 257), DirK(70, 0, 0, 0)},
      {DirI(4), DirE(0), DirE(40000)},
      {DirE(0), DirS, DirBlank},
      {DirS, DirBlank}>>

\* Scenario S3 of the specification, with a float division beside the
\* output; the word after the instruction is left zero, which stops the run.
FloatFile ==
    <<{DirA(256)}, {DirR(7), DirR(8)}, {DirA(260)}, {DirR(4), DirR(0)}, {DirA(512)},
      {DirK(ROUT, 0, 256, 0), DirK(RDIV, 0, 256, 260)}, {DirE(512)}, {DirS}>>

\* Scenario S4 of the specification: the cell 256 holds 5, the cell 5 holds
\* 3; LOAD R0 from 256, IADD in register mode 10, STOP.  The instructions
\* follow each other directly or are set four bytes apart by `a` lines.
S4File ==
    <<{DirA(256)}, {DirI(5)}, {DirA(5)}, {DirI(3)}, {DirA(512)},
      {DirK(LOAD, 0, 0, 256)}, {DirBlank, DirA(516)}, {DirK(IADD, 2, 0, 0)},
      {DirBlank, DirA(520)}, {DirK(STOP, 0, 0, 0)}, {DirE(512)}, {DirS}>>

\* Programs of two instructions: two data words, a first instruction that
\* sets the flags, jumps or reads input, and the opcode byte of a second
\* instruction: jumps, float arithmetic, register moves and I/O among them
JumpFile ==
    <<{DirBlank, DirOther}, {DirA(256)}, {DirI(3)}, {DirA(260)}, {DirI(3), DirI(4)},
      {DirA(512)},
      {DirK(op, 0, 256, 260) : op \in {ISUB, IADD, IIN, JZ, JG, JL}}, {DirA(516)},
      {DirI(b) : b \in {STOP, IADD, JZ, JG, JL, RADD, RSUB, RMUL, RDIV, MOVR, LOAD, STORE,
                        IIN, IOUT, RIN, ROUT}},
      {DirE(512), DirBlank}, {DirS, DirBlank}, {DirS, DirBlank}>>

Files == {S1File, WindowFile, LoaderFile, FloatFile, S4File, JumpFile}

Init ==
    /\ phase = "load"
    /\ prog \in Files
    /\ seen = <<>>
    /\ lineNumber = 0
    /\ address = 0
    /\ initialIP = 0
    /\ entryPointSet = FALSE
    /\ loadResult = [status |-> "none", line |-> 0, ip |-> 0]
    /\ placed = <<>>
    /\ mem = EmptyMemory
    /\ psw = ClearPSW(0)
    /\ registers = ZeroRegisters
    /\ error = FALSE
    /\ stop = FALSE
    /\ output = <<>>
    /\ last = NoLast
    /\ call = NoCall

Next ==
    \/ \E l \in NextLines : LoadBlank(l)
    \/ \E l \in NextLines : LoadA(l)
    \/ \E l \in NextLines : LoadE(l)
    \/ \E l \in NextLines : LoadI(l)
    \/ \E l \in NextLines : LoadR(l)
    \/ \E l \in NextLines : LoadK(l)
    \/ \E l \in NextLines : LoadS(l)
    \/ \E l \in NextLines : LoadOther(l)
    \/ LoadEOF
    \/ DoReset
    \/ \E inp \in Inputs : Step(inp)
    \/ RunExit

Spec == Init /\ [][Next]_vars

InitLive ==
    /\ phase = "load"
    /\ prog \in {S1File, FloatFile, S4File, JumpFile}
    /\ seen = <<>>
    /\ lineNumber = 0
    /\ address = 0
    /\ initialIP = 0
    /\ entryPointSet = FALSE
    /\ loadResult = [status |-> "none", line |-> 0, ip |-> 0]
    /\ placed = <<>>
    /\ mem = EmptyMemory
    /\ psw = ClearPSW(0)
    /\ registers = ZeroRegisters
    /\ error = FALSE
    /\ stop = FALSE
    /\ output = <<>>
    /\ last = NoLast
    /\ call = NoCall

\* The program keeps running: the loader reads on and main goes on to Reset,
\* Run and its exit (weak fairness), and the loop of Run takes its next
\* iteration whenever its condition !p.stop && !p.error holds (stdin delivers
\* a line whenever IIN or RIN asks for one). The loop's weak fairness is
\* written out with the loop condition, which is what enables Step.
SpecLive ==
    /\ InitLive /\ [][Next]_vars
    /\ WF_vars(\/ \E l \in NextLines : \/ LoadBlank(l) \/ LoadA(l) \/ LoadE(l) \/ LoadI(l)
                                        \/ LoadR(l) \/ LoadK(l) \/ LoadS(l) \/ LoadOther(l)
               \/ LoadEOF \/ DoReset \/ RunExit)
    /\ \/ []<>(~(phase = "run" /\ ~stop /\ ~error))
       \/ []<><<\E inp \in Inputs : Step(inp)>>_vars

\* The words and addresses the Memory API is called with
ApiWords ==
    {CmdWord(op, bb, a1, a2) : op \in {1, 69}, bb \in {0, 3}, a1 \in {4095, 4096},
                                 a2 \in {1023, 1024}}
    \cup {IntWord(x) : x \in {0, 1, Pow2_24 - 1, Pow2_24, MaxInt32, -1, MinInt32}}
ApiAddresses == {0, 1, MemorySize - 4, MemorySize - 3, -1}

InitMem ==
    /\ phase = "api"
    /\ prog = <<>>
    /\ seen = <<>>
    /\ lineNumber = 0
    /\ address = 0
    /\ initialIP = 0
    /\ entryPointSet = FALSE
    /\ loadResult = [status |-> "none", line |-> 0, ip |-> 0]
    /\ placed = <<>>
    /\ mem = EmptyMemory
    /\ psw = ClearPSW(0)
    /\ registers = ZeroRegisters
    /\ error = FALSE
    /\ stop = FALSE
    /\ output = <<>>
    /\ last = NoLast
    /\ call = NoCall

NextMem ==
    \/ \E a \in ApiAddresses, w \in ApiWords : ApiWriteWord(a, w)
    \/ \E a \in ApiAddresses : ApiReadWord(a)

SpecMem == InitMem /\ [][NextMem]_vars


----------------------------------------------------------------------------
(* Direct calls on a processor: SetRegister and WriteWord prepare it, then  *)
(* calculateAddress or one command's Execute is called.                    *)

\* The register values and data words the processor is prepared with
RegValues == {0, 1, -1, 65536, MaxInt32, MinInt32}
ProcData1 == {3, Pow2_24 - 1}
ProcData2 == {0, 4}
ProcAddresses == {<<256, 260>>, <<0, 1>>, <<1, 0>>, <<5, 1>>, <<1, 5>>}

\* calculateAddress(p, bb, addr, regIndex)
ApiCalculateAddress(bb, addr, regIndex) ==
    /\ phase = "proc" /\ call.op = "none" /\ ~last.valid
    /\ call' = [op |-> "calculateAddress", bb |-> bb, addr |-> addr,
                regIndex |-> regIndex,
                err |-> calculateAddress(P, bb, addr, regIndex).err,
                ea |-> calculateAddress(P, bb, addr, regIndex).ea, before |-> P]
    /\ UNCHANGED <<phase, prog, seen, lineNumber, address, initialIP, entryPointSet,
                   loadResult, placed, mem>>
    /\ UNCHANGED cpuVars

\* What a direct call of cmd.Execute(p), returning x, leaves
Direct(word, x) ==
    /\ SetProc(x.p)
    /\ phase' = IF x.panic THEN "crash" ELSE "proc"
    /\ last' = [valid |-> TRUE, ip |-> psw.IP, word |-> word, topByte |-> word.Opcode,
                ran |-> TRUE, jumped |-> x.jumped, handlerIP |-> x.p.psw.IP,
                err |-> x.err, panic |-> x.panic, prevOpcode |-> -1, pre |-> P]

\* cmd := constructor(bb, a1, a2); cmd.Execute(p)
ApiExecute(op, bb, a1, a2, inp) ==
    /\ phase = "proc" /\ call.op = "none" /\ ~last.valid
    /\ Direct(CmdWord(op, bb, a1, a2),
              Execute(op, P, [BB |-> bb, Address1 |-> a1, Address2 |-> a2], inp))
    /\ UNCHANGED <<prog, seen, lineNumber, address, initialIP, entryPointSet, loadResult,
                   placed, call>>

InitProc ==
    /\ phase = "proc"
    /\ prog = <<>>
    /\ seen = <<>>
    /\ lineNumber = 0
    /\ address = 0
    /\ initialIP = 0
    /\ entryPointSet = FALSE
    /\ loadResult = [status |-> "none", line |-> 0, ip |-> 0]
    /\ placed = <<>>
    /\ \E d1 \in ProcData1, d2 \in ProcData2 :
          mem = WriteWord(WriteWord(EmptyMemory, 256, IntWord(d1)).data, 260,
                          IntWord(d2)).data
    /\ psw = ClearPSW(0)
    /\ registers \in [0..(NUM_REGISTERS - 1) -> RegValues]
    /\ error = FALSE
    /\ stop = FALSE
    /\ output = <<>>
    /\ last = NoLast
    /\ call = NoCall

NextProc ==
    \/ \E bb \in 0..3, addr \in {0, 1, 4095, 65535}, regIndex \in {0, 1, 5} :
          ApiCalculateAddress(bb, addr, regIndex)
    \/ \E op \in CommandMapKeys, bb \in 0..3, a \in ProcAddresses, inp \in Inputs :
          ApiExecute(op, bb, a[1], a[2], inp)

SpecProc == InitProc /\ [][NextProc]_vars

----------------------------------------------------------------------------
(* Direct calls of GetFlags, SetFlags and Reset on a processor in any state *)

\* The flag words SetFlags is called with: the sixteen packed words, and
\* words with bits set that hold no flag
FlagWords ==
    {s * 32768 + v * 2048 + z * 1024 + c : s, v, z, c \in {0, 1}} \cup {65535, 2, 31742}

\* The entry points Reset is called with (a uint16)
ResetAddresses == {0, 512, MemorySize - 4, MemorySize - 3, MemorySize - 1}

\* p.GetFlags()
ApiGetFlags ==
    /\ phase = "psw" /\ call.op = "none"
    /\ call' = [op |-> "GetFlags", flags |-> GetFlags(psw), before |-> P]
    /\ UNCHANGED <<phase, prog, seen, lineNumber, address, initialIP, entryPointSet,
                   loadResult, placed, mem>>
    /\ UNCHANGED cpuVars

\* p.SetFlags(flags); got is what a GetFlags call just before it returned
ApiSetFlags(flags) ==
    /\ phase = "psw" /\ call.op \in {"none", "GetFlags"}
    /\ psw' = SetFlags(psw, flags)
    /\ call' = [op |-> "SetFlags", flags |-> flags, before |-> P,
                got |-> IF call.op = "GetFlags" THEN <<call.flags>> ELSE <<>>]
    /\ UNCHANGED <<phase, prog, seen, lineNumber, address, initialIP, entryPointSet,
                   loadResult, placed, mem, registers, error, stop, output, last>>

\* p.Reset(ip)
ApiReset(ip) ==
    /\ phase = "psw" /\ call.op = "none"
    /\ SetProc(Reset(P, ip))
    /\ call' = [op |-> "Reset", ip |-> ip, before |-> P]
    /\ UNCHANGED <<phase, prog, seen, lineNumber, address, initialIP, entryPointSet,
                   loadResult, placed, last>>

\* p.Run() on the processor as Reset left it
ApiRun ==
    /\ phase = "psw" /\ call.op = "Reset"
    /\ phase' = "run"
    /\ call' = [op |-> "Run", before |-> P]
    /\ UNCHANGED <<prog, seen, lineNumber, address, initialIP, entryPointSet, loadResult,
                   placed, mem>>
    /\ UNCHANGED cpuVars

InitPSW ==
    /\ phase = "psw"
    /\ prog = <<>>
    /\ seen = <<>>
    /\ lineNumber = 0
    /\ address = 0
    /\ initialIP = 0
    /\ entryPointSet = FALSE
    /\ loadResult = [status |-> "none", line |-> 0, ip |-> 0]
    /\ placed = <<>>
    /\ mem = WriteWord(EmptyMemory, 256, IntWord(3)).data
    /\ psw \in [IP : {7}, SignFlag : BOOLEAN, CarryFlag : BOOLEAN,
                OverflowFlag : BOOLEAN, ZeroFlag : BOOLEAN]
    /\ registers \in [0..(NUM_REGISTERS - 1) -> {0, -1}]
    /\ error \in BOOLEAN
    /\ stop \in BOOLEAN
    /\ output = <<>>
    /\ last = NoLast
    /\ call = NoCall

NextPSW ==
    \/ ApiGetFlags
    \/ \E flags \in FlagWords : ApiSetFlags(flags)
    \/ \E ip \in ResetAddresses : ApiReset(ip)
    \/ ApiRun
    \/ \E inp \in Inputs : Step(inp)
    \/ RunExit

SpecPSW == InitPSW /\ [][NextPSW]_vars

----------------------------------------------------------------------------
(* Properties of the jump instructions *)

\* The packed flag word read as a signed 16-bit integer
Signed16(flags) == IF flags >= 32768 THEN flags - 65536 ELSE flags

\* Whether the last step ran the handler of opcode op to a normal return
Executed(op) ==
    last.valid /\ last.ran /\ ~last.panic /\ last.err = "none" /\ last.word.Opcode = op

\* C1: when the condition of a JZ, JG or JL holds as it is executed, the
\* machine state after the step has IP equal to the effective address
\* resolved from (BB, Address1), not the old IP + 1.
C1_TakenJumpSetsIP ==
    \A op \in {JZ, JG, JL} :
        (/\ Executed(op)
         /\ CASE op = JZ -> GetFlags(last.pre.psw) = 0
              [] op = JG -> Signed16(GetFlags(last.pre.psw)) > 0
              [] op = JL -> Signed16(GetFlags(last.pre.psw)) < 0
         /\ calculateAddress(last.pre, last.word.BB, last.word.Address1, 0).err = "none")
        => psw.IP = calculateAddress(last.pre, last.word.BB, last.word.Address1, 0).ea

\* C2: scenario S1 - the loaded program runs IADD, IOUT (which outputs 7)
\* and STOP, and the run ends with stop = true and error = false.
C2_S1PrintsSeven ==
    (prog = S1File /\ phase \in {"halt", "crash", "loadfail"})
    => /\ phase = "halt"
       /\ output = <<[kind |-> "int", v |-> 7]>>
       /\ stop /\ ~error

\* C3: words written by consecutive i, r, k directives lie at consecutive
\* 4-byte strides, so no two overlap, and once loading is complete every
\* loaded word that no later `a` directive re-targeted reads back from its
\* load address as written.
C3_LoadedWordsDisjoint ==
    /\ \A i, j \in 1..Len(placed) :
          (/\ i < j
           /\ \A k \in (placed[i].line + 1)..(placed[j].line - 1) : seen[k].d # "a")
          => placed[j].addr = placed[i].addr + 4 * (j - i)
    /\ phase = "reset" =>
          \A i \in 1..Len(placed) :
              (\A k \in (placed[i].line + 1)..Len(seen) : seen[k].d # "a")
              => Bytes4(mem, placed[i].addr) = EncodeWord(placed[i].word)

\* The last step fetched, without leaving the memory, four bytes whose top
\* byte is zero
FetchedDataWord == last.valid /\ ~last.panic /\ last.topByte = 0

C5_JumpOnZeroResult ==
    (/\ Executed(JZ) /\ last.word.BB = 0
     /\ last.prevOpcode = ISUB /\ last.pre.psw.ZeroFlag)
    => psw.IP = last.word.Address1

\* C6: a jump handler takes its branch exactly when, for JZ, the packed flag
\* word is 0; for JG, the flag word as a signed 16-bit integer is > 0; for
\* JL, that signed value is < 0.
C6_JumpConditions ==
    /\ Executed(JZ) => (last.jumped <=> GetFlags(last.pre.psw) = 0)
    /\ Executed(JG) => (last.jumped <=> Signed16(GetFlags(last.pre.psw)) > 0)
    /\ Executed(JL) => (last.jumped <=> Signed16(GetFlags(last.pre.psw)) < 0)

----------------------------------------------------------------------------
(* Properties of the Memory API *)

\* The last call read the word the call before it wrote to the same address
ReadBack == call.op = "ReadWord" /\ ~call.panic /\ call.written # <<>>

\* C7: a command word with Opcode in 1..0x45, any BB and any 16-bit
\* addresses reads back as (Opcode, BB, Address1 & 0xFFF, Address2 & 0x3FF).
C7_CommandRoundTrip ==
    (ReadBack /\ call.written[1].Opcode \in 1..69)
    => /\ call.word.Opcode = call.written[1].Opcode
       /\ call.word.BB = call.written[1].BB
       /\ call.word.Address1 = call.written[1].Address1 % Pow2_12
       /\ call.word.Address2 = call.written[1].Address2 % Pow2_10

\* C8: an int32 x written as data reads back as the integer x if and only if
\* its top byte is zero (0 <= x < 2^24); every other x reads back as a
\* command whose Opcode is the top byte of x.
C8_DataRoundTrip ==
    (ReadBack /\ call.written[1].Opcode = 0)
    => LET x == call.written[1].I
           top == IF x >= 0 THEN x \div Pow2_24 ELSE 256 + (x \div Pow2_24)
       IN  /\ (call.word.Opcode = 0 /\ call.word.I = x) <=> (x >= 0 /\ x < Pow2_24)
           /\ ~(x >= 0 /\ x < Pow2_24)
              => call.word.Opcode = top /\ call.word.Opcode > 0 /\ call.word.I = 0

\* -1 was written as data and read back as a command of opcode 0xFF
C8_Witness ==
    ReadBack /\ call.written[1].Opcode = 0 /\ call.written[1].I = -1
    /\ call.word.Opcode = 255

\* C9: ReadWord and WriteWord return an OutOfBounds error, without crashing
\* and without changing the memory, when a < 0 or a + 3 >= size, and succeed
\* when 0 <= a <= size - 4.
C9_AddressValidated ==
    call.op \in {"ReadWord", "WriteWord"}
    => /\ ~call.panic
       /\ (call.addr < 0 \/ call.addr + 3 >= MemorySize)
          => call.err = "OutOfBounds" /\ mem = call.before
       /\ (call.addr >= 0 /\ call.addr <= MemorySize - 4) => call.err = "none"

----------------------------------------------------------------------------
(* Properties of the instruction pointer *)

\* C10: after a successfully executed instruction that is neither a jump nor
\* STOP, the new IP is (old IP + 1) mod 65536.
C10_IPAdvancesByOne ==
    (/\ last.valid /\ last.ran /\ ~last.panic /\ last.err = "none"
     /\ last.word.Opcode \notin {JZ, JG, JL, STOP})
    => psw.IP = (last.ip + 1) % 65536

\* An IADD that was executed and changed the memory
C10_Witness ==
    Executed(IADD) /\ mem # last.pre.mem /\ psw.IP = last.ip + 1


----------------------------------------------------------------------------
(* Properties of STOP, of the stop and error flags and of division by zero *)

\* C11: executing STOP sets stop = true and leaves IP, the four flags, both
\* registers, the memory and the error flag unchanged; no instruction is
\* fetched afterwards.
C11_StopFrame ==
    [][/\ Executed(STOP)'
          => /\ stop' /\ psw' = last'.pre.psw /\ registers' = last'.pre.registers
             /\ mem' = last'.pre.mem /\ error' = last'.pre.error
       /\ stop => UNCHANGED <<last, mem, psw, registers, error, stop, output>>]_vars

\* A STOP executed after an ISUB that left the sign flag set, and the run over
C11_Witness ==
    Executed(STOP) /\ last.prevOpcode = ISUB /\ psw.SignFlag /\ stop /\ phase = "halt"

\* C12: once stop or error is true during Run no instruction is fetched or
\* executed and neither flag returns to false; when the fetch or a handler
\* returns an error, error is set and IP holds the address of the failing
\* instruction.
C12_StopErrorMonotonic ==
    [][/\ (stop \/ error)
          => /\ stop' = stop /\ error' = error
             /\ UNCHANGED <<last, mem, psw, registers, output>>
       /\ (last'.valid /\ last'.err # "none") => error' /\ psw'.IP = last'.ip]_vars

\* An undefined opcode met as the second instruction ended the run in error
C12_Witness ==
    /\ last.valid /\ last.err = "invalid opcode" /\ last.prevOpcode = IADD
    /\ error /\ ~stop /\ psw.IP = last.ip /\ phase = "halt"

\* The operands the last instruction's handler resolved and read
LastOperands ==
    ReadOperands(last.pre, [BB |-> last.word.BB, Address1 |-> last.word.Address1,
                            Address2 |-> last.word.Address2])

\* C13: IDIV or RDIV whose divisor operand is zero fails with a
\* division-by-zero error and mutates neither the destination word nor any
\* other memory byte, the registers, the flags or IP; only error becomes true.
C13_DivisionByZero ==
    (/\ last.valid /\ last.ran /\ ~last.panic /\ last.word.Opcode \in {IDIV, RDIV}
     /\ LastOperands.err = "none" /\ ~LastOperands.panic
     /\ Bytes4(last.pre.mem, LastOperands.addr2) = <<0, 0, 0, 0>>)
    => /\ last.err = "division by zero" /\ error /\ ~stop
       /\ mem = last.pre.mem /\ registers = last.pre.registers
       /\ psw = last.pre.psw /\ output = last.pre.output

\* An IDIV of a nonzero dividend by zero
C13_Witness ==
    /\ last.valid /\ last.ran /\ last.word.Opcode = IDIV
    /\ last.err = "division by zero" /\ error
    /\ LastOperands.word1.I # 0 /\ LastOperands.word2.I = 0
    /\ LastOperands.addr1 # LastOperands.addr2


----------------------------------------------------------------------------
(* Properties of address resolution and of the registers *)

\* x + y truncated to 16 bits
Sum16(x, y) == ((x % 65536) + (y % 65536)) % 65536

\* C14: calculateAddress(BB, addr, r) with r in {0, 1} returns addr for
\* BB = 00, addr + R0 truncated to 16 bits for BB = 01, Rr truncated to 16
\* bits for BB = 10 and addr + Rr truncated to 16 bits for BB = 11, and
\* modifies neither registers, flags, memory nor IP.
C14_AddressResolution ==
    (call.op = "calculateAddress" /\ call.regIndex \in {0, 1})
    => /\ call.err = "none"
       /\ call.ea = CASE call.bb = 0 -> call.addr
                      [] call.bb = 1 -> Sum16(call.addr, registers[0])
                      [] call.bb = 2 -> Sum16(0, registers[call.regIndex])
                      [] call.bb = 3 -> Sum16(call.addr, registers[call.regIndex])
       /\ P = call.before

\* Mode 11 with R1 = -1 and R0 = 1: the address before addr
C14_Witness ==
    /\ call.op = "calculateAddress" /\ call.bb = 3 /\ call.regIndex = 1
    /\ registers[1] = -1 /\ registers[0] = 1 /\ call.addr = 4095 /\ call.ea = 4094


\* The register indexes the last instruction names: LOAD in Address1, STORE
\* in Address2, ADDR, SUBR and MOVR in both
LastRegisterIndexes ==
    CASE last.word.Opcode = LOAD -> {last.word.Address1 % 8}
      [] last.word.Opcode = STORE -> {last.word.Address2 % 8}
      [] OTHER -> {last.word.Address1 % 8, last.word.Address2 % 8}

\* C15: GetRegister and SetRegister with an index >= 2 return
\* InvalidRegister, and a LOAD, STORE, ADDR, SUBR or MOVR naming a register
\* index in 2..7 fails with InvalidRegister and leaves both registers as they
\* were.
C15_OnlyTwoRegisters ==
    /\ \A i \in 2..7 : /\ GetRegister(P, i).err = "InvalidRegister"
                       /\ SetRegister(P, i, 1).err = "InvalidRegister"
                       /\ SetRegister(P, i, 1).p = P
    /\ (/\ last.valid /\ last.ran /\ ~last.panic
        /\ last.word.Opcode \in {LOAD, STORE, ADDR, SUBR, MOVR}
        /\ \E i \in LastRegisterIndexes : i >= 2)
       => /\ last.err = "InvalidRegister"
          /\ registers = last.pre.registers /\ mem = last.pre.mem

\* Scenario S6: a MOVR to register 5 from a register holding -1
C15_Witness ==
    /\ last.valid /\ last.word.Opcode = MOVR /\ last.word.Address1 % 8 = 5
    /\ last.word.Address2 % 8 = 1 /\ last.pre.registers[1] = -1
    /\ last.err = "InvalidRegister" /\ registers = last.pre.registers


----------------------------------------------------------------------------
(* Properties of the integer arithmetic *)

\* The result the last arithmetic instruction produced: for ADDR and SUBR the
\* destination register, for the memory instructions the operation on the
\* integer views of the two operand words it read
ProducedResult ==
    CASE last.word.Opcode \in {ADDR, SUBR} -> registers[last.word.Address1 % 8]
      [] last.word.Opcode = IADD -> Add32(LastOperands.word1.I, LastOperands.word2.I)
      [] last.word.Opcode = ISUB -> Sub32(LastOperands.word1.I, LastOperands.word2.I)
      [] last.word.Opcode = IMUL -> Mul32(LastOperands.word1.I, LastOperands.word2.I)
      [] last.word.Opcode = IDIV -> Div32(LastOperands.word1.I, LastOperands.word2.I)

\* C16: after every successful IADD, ISUB, IMUL, IDIV, ADDR or SUBR, flag S
\* is true iff the produced 32-bit result is negative and flag Z is true iff
\* it is zero.
C16_SignZeroFlags ==
    \A op \in {IADD, ISUB, IMUL, IDIV, ADDR, SUBR} :
        Executed(op) => /\ psw.SignFlag <=> ProducedResult < 0
                        /\ psw.ZeroFlag <=> ProducedResult = 0

\* A SUBR that wrapped: R0 = MinInt32 less R1 = 1 leaves MaxInt32, S clear
C16_Witness ==
    /\ Executed(SUBR) /\ last.word.Address1 % 8 = 0 /\ last.word.Address2 % 8 = 1
    /\ last.pre.registers[0] = MinInt32 /\ last.pre.registers[1] = 1
    /\ registers[0] = MaxInt32 /\ ~psw.SignFlag /\ ~psw.ZeroFlag


\* The int32 whose four bytes the memory m holds at address a
StoredInt(m, a) == Int32OfBytes(Bytes4(m, a))

\* The last instruction's operand addresses hold, intact, words the loader
\* placed as data
OperandsLoadedAsData ==
    /\ LastOperands.err = "none" /\ ~LastOperands.panic
    /\ \A a \in {LastOperands.addr1, LastOperands.addr2} :
          \E i \in 1..Len(placed) :
              /\ placed[i].addr = a /\ placed[i].word.Opcode = 0
              /\ Bytes4(last.pre.mem, a) = EncodeWord(placed[i].word)

\* C17: after a successful IADD the integer stored at a1 is the
\* int32-wrapped sum of the integers stored at a1 and a2 before it, for all
\* int32 values stored there as data, negative values and values >= 2^24
\* included.
C17_AddIntStoresSum ==
    (Executed(IADD) /\ OperandsLoadedAsData)
    => StoredInt(mem, LastOperands.addr1)
       = Add32(StoredInt(last.pre.mem, LastOperands.addr1),
               StoredInt(last.pre.mem, LastOperands.addr2))

\* The values of the last instruction's two operands before it ran: the
\* registers named, or the integers stored at the operand addresses
OperandA ==
    IF last.word.Opcode \in {ADDR, SUBR}
    THEN last.pre.registers[last.word.Address1 % 8]
    ELSE StoredInt(last.pre.mem, LastOperands.addr1)
OperandB ==
    IF last.word.Opcode \in {ADDR, SUBR}
    THEN last.pre.registers[last.word.Address2 % 8]
    ELSE StoredInt(last.pre.mem, LastOperands.addr2)

\* C18: after a successful IADD or ADDR on a and b with result r,
\* V = (a > 0 and b > 0 and r < 0) or (a < 0 and b < 0 and r > 0) and
\* C = (uint32(a) + uint32(b) > 0x7FFFFFFF).
C18_AddFlags ==
    \A op \in {IADD, ADDR} :
        Executed(op)
        => LET a == OperandA
               b == OperandB
               r == Add32(a, b)
           IN  /\ psw.OverflowFlag <=> (a > 0 /\ b > 0 /\ r < 0) \/ (a < 0 /\ b < 0 /\ r > 0)
               /\ psw.CarryFlag <=> r < 0

\* C19: after a successful ISUB or SUBR on a and b with result r,
\* V = (a > 0 and b < 0 and r < 0) or (a < 0 and b > 0 and r > 0) and
\* C = (uint32(a) < uint32(b)).
C19_SubFlags ==
    \A op \in {ISUB, SUBR} :
        (/\ Executed(op)
         /\ op = ISUB => /\ OperandA >= 0 /\ OperandA < Pow2_24
                         /\ OperandB >= 0 /\ OperandB < Pow2_24)
        => LET a == OperandA
               b == OperandB
               r == Sub32(a, b)
           IN  /\ psw.OverflowFlag <=> (a > 0 /\ b < 0 /\ r < 0) \/ (a < 0 /\ b > 0 /\ r > 0)
               /\ psw.CarryFlag <=> ULess32(a, b)

\* C20: IMUL completes for every pair of operands a1 and a2, stores the
\* int32-wrapped a1 * a2 at the destination, sets C = 0 and sets V exactly
\* when a2 # 0 and result / a2 # a1; with a2 = 0 it completes with V false.
C20_MulInt ==
    (/\ last.valid /\ last.ran /\ last.word.Opcode = IMUL
     /\ LastOperands.err = "none" /\ ~LastOperands.panic
     /\ OperandA >= 0 /\ OperandA < Pow2_24 /\ OperandB >= 0 /\ OperandB < Pow2_24)
    => LET a == OperandA
           b == OperandB
           r == Mul32(a, b)
       IN  /\ ~last.panic /\ last.err = "none"
           /\ StoredInt(mem, LastOperands.addr1) = r
           /\ ~psw.CarryFlag
           /\ psw.OverflowFlag <=> (b # 0 /\ Div32(r, b) # a)

----------------------------------------------------------------------------
(* Scenarios S3 and S4, float data *)

\* C21: scenario S4 - after LOAD has put 5 in R0, the IADD in register mode
\* 10 with Address1 & 7 = 0 takes both operands from the address in R0,
\* succeeds, doubles the integer stored there (3 becomes 6) and leaves the
\* flags of the doubled value.
C21_S4DoublesCell ==
    (prog = S4File /\ phase \in {"halt", "crash", "loadfail"})
    => /\ phase = "halt" /\ ~error
       /\ registers[0] = 5
       /\ StoredInt(mem, 5) = 6
       /\ ~psw.SignFlag /\ ~psw.ZeroFlag

\* Whether the i-th word the loader placed is a float word that no other
\* placed word overlaps
LoadedFloat(i) ==
    /\ placed[i].word = FloatWord(placed[i].word.F)
    /\ \A j \in 1..Len(placed) :
          j # i => \/ placed[j].addr >= placed[i].addr + 4
                   \/ placed[j].addr + 4 <= placed[i].addr

\* C22: a float v written by an `r` directive is what a later ROUT at that
\* address outputs (`r 3.5` then ROUT outputs 3.5, not 0).
C22_FloatSurvivesLoad ==
    \A i \in 1..Len(placed) :
        (/\ Executed(ROUT) /\ last.word.BB = 0
         /\ placed[i].addr = last.word.Address1 /\ LoadedFloat(i))
        => /\ output # <<>>
           /\ output[Len(output)] = [kind |-> "float", v |-> placed[i].word.F]

\* C23: RDIV fails with a division-by-zero error only when the float stored
\* at a2 is zero; with a nonzero float stored there it succeeds, writes the
\* quotient to a1 and advances IP.
C23_DivFloatByNonzero ==
    \A i, j \in 1..Len(placed) :
        (/\ last.valid /\ last.ran /\ ~last.panic
         /\ last.word.Opcode = RDIV /\ last.word.BB = 0
         /\ placed[i].addr = last.word.Address1 /\ LoadedFloat(i)
         /\ placed[j].addr = last.word.Address2 /\ LoadedFloat(j))
        => /\ last.err = "division by zero" <=> placed[j].word.F = 0
           /\ placed[j].word.F # 0
              => /\ last.err = "none" /\ ~error
                 /\ psw.IP = AdvanceIP(last.ip)
                 /\ ReadWord(mem, last.word.Address1).word.F
                    = FDiv(placed[i].word.F, placed[j].word.F)

----------------------------------------------------------------------------
(* The loader's result *)

\* A line the file format defines, other than `s`, with operands in range
WellFormedDirective(l) ==
    CASE l.d = "" -> TRUE
      [] l.d \in {"a", "e"} -> l.n >= 1 /\ l.wf /\ l.v >= 0 /\ l.v < MemorySize
      [] l.d = "i" -> l.n >= 1 /\ l.wf /\ l.v >= MinInt32 /\ l.v <= MaxInt32
      [] l.d = "r" -> l.n >= 1 /\ l.wf
      [] l.d = "k" -> /\ l.n >= 4 /\ l.wf
                      /\ l.op \in 0..69 /\ l.bb \in 0..3
                      /\ l.a1 \in 0..(MemorySize - 1) /\ l.a2 \in 0..(MemorySize - 1)
      [] OTHER -> FALSE

\* The positions of the `e` lines among the first n lines read
EntryLines(n) == {i \in 1..n : seen[i].d = "e"}

\* C24: a file of well-formed directives only, terminated by `s`, loads
\* without error, and the entry point returned is the address of the last
\* `e` directive, whichever valid memory address that is.
C24_LoaderTotality ==
    (/\ phase \notin {"load", "api", "proc", "psw"}
     /\ \A i \in 1..(Len(seen) - 1) : WellFormedDirective(seen[i])
     /\ Len(seen) > 0
     /\ seen[Len(seen)].d = "s" \/ WellFormedDirective(seen[Len(seen)]))
    => \/ /\ seen[Len(seen)].d = "s" /\ EntryLines(Len(seen)) = {}
       \/ /\ seen[Len(seen)].d = "s"
          /\ loadResult.status = "ok"
          /\ \E i \in EntryLines(Len(seen)) :
                /\ \A j \in EntryLines(Len(seen)) : j <= i
                /\ loadResult.ip = seen[i].v
       \/ /\ seen[Len(seen)].d # "s" /\ phase = "loadfail" /\ Len(seen) = Len(prog)

\* C25: reaching `s` before any `e` and reaching the end of the input
\* without `s` both make the loader return an error and no entry point; an
\* `e` anywhere before `s` makes `s` return that entry point.
C25_EntryBeforeS ==
    [][/\ (phase = "load" /\ lineNumber = Len(prog))
          => phase' = "loadfail" /\ loadResult' = [status |-> "error", line |-> lineNumber,
                                                    ip |-> 0]
       /\ (phase = "load" /\ Len(seen') > Len(seen) /\ seen'[Len(seen')].d = "s")
          => IF EntryLines(Len(seen)) = {}
             THEN phase' = "loadfail" /\ loadResult'.status = "error" /\ loadResult'.ip = 0
             ELSE phase' = "reset" /\ loadResult'.status = "ok"
                  /\ loadResult'.ip = initialIP]_vars

\* `s` met after words were placed and before any `e`
C25_Witness ==
    /\ phase = "loadfail" /\ Len(seen) > 0 /\ seen[Len(seen)].d = "s"
    /\ Len(placed) > 0 /\ loadResult.status = "error"

\* C26: once loading has returned an error, Reset and Run are never
\* invoked: no instruction is fetched and the processor stays as constructed.
C26_NoRunAfterLoadError ==
    loadResult.status = "error"
    => /\ phase = "loadfail" /\ ~last.valid
       /\ psw = ClearPSW(0) /\ registers = ZeroRegisters /\ ~stop /\ ~error
       /\ output = <<>>

\* A load that failed after it had placed words and recorded an entry point
C26_Witness ==
    /\ loadResult.status = "error" /\ phase = "loadfail"
    /\ Len(placed) > 0 /\ entryPointSet

----------------------------------------------------------------------------
(* Reset and the packed flag word *)

\* C27: Reset(entry) leaves IP = entry, S = C = V = Z = false, R0 = R1 = 0,
\* stop = error = false, and every memory byte as it was.
C27_ResetEstablishes ==
    call.op = "Reset"
    => /\ psw = [IP |-> call.ip, SignFlag |-> FALSE, CarryFlag |-> FALSE,
                 OverflowFlag |-> FALSE, ZeroFlag |-> FALSE]
       /\ registers = [i \in 0..1 |-> 0]
       /\ ~stop /\ ~error
       /\ mem = call.before.mem

\* Reset of a processor with flags, registers, stop and error all set
C27_Witness ==
    /\ call.op = "Reset" /\ call.ip = 512
    /\ call.before.psw.SignFlag /\ call.before.psw.CarryFlag
    /\ call.before.psw.OverflowFlag /\ call.before.psw.ZeroFlag
    /\ call.before.registers[0] = -1 /\ call.before.registers[1] = -1
    /\ call.before.stop /\ call.before.error
    /\ mem # EmptyMemory

\* Bit n of the non-negative integer x
BitOf(x, n) == (x \div 2^n) % 2

\* C29: the word GetFlags returns has bit 15 = S, bit 11 = V, bit 10 = Z,
\* bit 0 = C and every other bit zero, for all sixteen flag combinations,
\* and SetFlags of that word leaves the four flags as they were.
C29_FlagWordLayout ==
    /\ call.op = "GetFlags"
       => /\ call.flags \in 0..65535
          /\ \A n \in 0..15 :
                BitOf(call.flags, n) = 1
                <=> \/ n = 15 /\ psw.SignFlag
                    \/ n = 11 /\ psw.OverflowFlag
                    \/ n = 10 /\ psw.ZeroFlag
                    \/ n = 0 /\ psw.CarryFlag
    /\ (call.op = "SetFlags" /\ call.got = <<call.flags>>)
       => psw = call.before.psw

\* SetFlags(GetFlags()) on a processor with V and C set, S and Z clear
C29_Witness ==
    /\ call.op = "SetFlags" /\ call.got = <<call.flags>> /\ call.flags = 2049
    /\ psw.OverflowFlag /\ psw.CarryFlag /\ ~psw.SignFlag /\ ~psw.ZeroFlag

----------------------------------------------------------------------------
(* LOAD and STORE, unknown opcodes *)

\* C28: LOAD sets register (Address1 & 7) to the integer stored at the
\* absolute address Address2 and changes no memory and no other register;
\* STORE writes register (Address2 & 7) as a data word at the absolute
\* address Address1 and changes no register and no other byte; neither
\* looks at BB or at the registers to form the address.
C28_LoadStoreAbsolute ==
    /\ Executed(LOAD)
       => /\ registers[last.word.Address1 % 8]
             = StoredInt(last.pre.mem, last.word.Address2)
          /\ \A i \in 0..1 :
                i # last.word.Address1 % 8 => registers[i] = last.pre.registers[i]
          /\ mem = last.pre.mem
    /\ Executed(STORE)
       => /\ registers = last.pre.registers
          /\ StoredInt(mem, last.word.Address1)
             = last.pre.registers[last.word.Address2 % 8]
          /\ \A x \in (DOMAIN mem) \cup (DOMAIN last.pre.mem) :
                x \notin last.word.Address1..(last.word.Address1 + 3)
                => ByteAt(mem, x) = ByteAt(last.pre.mem, x)

\* C30: a fetched word whose opcode byte is nonzero and is none of the 21
\* opcodes of the dispatch table (every value above 0x45 included, such as
\* the top byte of a negative data integer) makes the step fail with
\* InvalidOpcode: error becomes true, and IP, flags, registers and memory
\* stay as they were.
C30_UnknownOpcodeFails ==
    /\ Cardinality(CommandMapKeys) = 21
    /\ (/\ last.valid /\ ~last.panic
        /\ last.topByte # 0 /\ last.topByte \notin CommandMapKeys)
       => /\ last.err = "invalid opcode" /\ ~last.ran
          /\ error /\ ~stop
          /\ psw = last.pre.psw /\ registers = last.pre.registers
          /\ mem = last.pre.mem /\ output = last.pre.output

\* Opcode byte 0x50 fetched as the second instruction, after a LOAD that
\* put 4 in R0
C30_Witness ==
    /\ last.valid /\ last.err = "invalid opcode" /\ error
    /\ last.topByte = 80 /\ last.prevOpcode = LOAD
    /\ registers[0] = 4

----------------------------------------------------------------------------
(* The fetch *)

\* C31: at the start of every fetch 0 <= IP < size holds (or the step fails
\* with InvalidIP, reading nothing), and for every such IP the fetch itself
\* completes without reaching outside the memory's bytes.
C31_FetchStaysInMemory ==
    /\ psw.IP >= 0 /\ psw.IP < MemorySize
    /\ last.valid
       => IF IsValidAddress(last.ip)
          THEN ~(last.panic /\ ~last.ran)
          ELSE last.err = "invalid instruction pointer" /\ ~last.ran

\* C32: every loader violation is returned as a parse error carrying the
\* line number; in particular an i, r or k directive met with the cursor in
\* [size-3, size-1], where the word does not fit, makes the loader return a
\* parse error for that line rather than crash.
C32_UnfitWordIsParseError ==
    /\ loadResult.status = "error" => loadResult.line \in 1..Len(prog)
    /\ (/\ ~last.valid /\ phase \in {"crash", "loadfail"}
        /\ Len(seen) > 0
        /\ seen[Len(seen)].d \in {"i", "r", "k"}
        /\ WellFormedDirective(seen[Len(seen)])
        /\ address \in (MemorySize - 3)..(MemorySize - 1))
       => /\ phase = "loadfail"
          /\ loadResult = [status |-> "error", line |-> Len(seen), ip |-> 0]

----------------------------------------------------------------------------
(* Instruction effects: order, failure, termination *)

\* Integer, float and register arithmetic
ArithmeticOpcodes == {IADD, ISUB, IMUL, IDIV, RADD, RSUB, RMUL, RDIV, ADDR, SUBR}

\* C33: an arithmetic instruction reads, computes, writes its destination,
\* updates the flags and advances IP, in that order; in no reachable state
\* has it written its destination and then ended without the flag update
\* and the advance of IP.
C33_WriteThenFlagsThenIP ==
    (/\ last.valid /\ last.ran /\ last.word.Opcode \in ArithmeticOpcodes
     /\ mem # last.pre.mem \/ registers # last.pre.registers)
    => /\ ~last.panic /\ last.err = "none"
       /\ psw.IP = AdvanceIP(last.ip)

\* Instructions whose operands are memory cells addressed through BB
MemoryOperandOpcodes ==
    {IADD, ISUB, IMUL, IDIV, RADD, RSUB, RMUL, RDIV, IIN, IOUT, RIN, ROUT}

\* C34: a memory-operand instruction consults register Address1 & 7 only
\* when BB bit 1 is set: with BB = 00 or 01 it never fails with
\* InvalidRegister and with BB = 01 the displacement is R0; with BB = 10 or
\* 11 and Address1 & 7 in 2..7 it fails with InvalidRegister before touching
\* memory.
C34_RegisterIndexOnlyInRegisterMode ==
    (last.valid /\ last.ran /\ last.word.Opcode \in MemoryOperandOpcodes)
    => /\ last.word.BB \in {0, 1} => last.err # "InvalidRegister"
       /\ last.word.BB = 1
          => OperandAddress(last.pre, last.word)
             = [err |-> "none",
                ea |-> Sum16(last.word.Address1, last.pre.registers[0])]
       /\ (last.word.BB \in {2, 3} /\ last.word.Address1 % 8 >= 2)
          => /\ last.err = "InvalidRegister" /\ ~last.panic
             /\ mem = last.pre.mem /\ output = last.pre.output

C36_FailedInstructionChangesOnlyError ==
    (last.valid /\ last.ran /\ last.err # "none" /\ ~last.panic)
    => /\ ~last.pre.error
       /\ P = [last.pre EXCEPT !.error = TRUE]

\* IIN was given a line that is not an integer, in a loaded memory
C36_Witness ==
    /\ last.valid /\ last.ran /\ last.word.Opcode = IIN
    /\ last.err = "invalid integer input"
    /\ error /\ mem # EmptyMemory /\ psw.IP = last.ip

\* C37: stop and error are never both true, and when Run has returned
\* exactly one of them is true.
C37_StopXorError ==
    /\ ~(stop /\ error)
    /\ phase = "halt" => (stop # error)

\* Run has returned after STOP, which followed another instruction
C37_Witness ==
    /\ phase = "halt" /\ stop /\ ~error
    /\ Executed(STOP) /\ last.prevOpcode \notin {-1, STOP}

\* The integers the last instruction obtained from memory through ReadWord:
\* both operands of the integer arithmetic, the operand of IOUT
IntegersRead ==
    IF last.word.Opcode = IOUT
    THEN {ReadWord(last.pre.mem, OperandAddress(last.pre, last.word).ea).word.I}
    ELSE {LastOperands.word1.I, LastOperands.word2.I}

FlagsOf(w) == <<w.SignFlag, w.ZeroFlag, w.CarryFlag, w.OverflowFlag>>

\* C40: MOVR, LOAD, STORE, IIN, IOUT, RIN, ROUT, JZ, JG, JL and STOP never
\* change any of the four flags; ADDR, SUBR, MOVR and LOAD never change
\* memory; the memory-operand arithmetic and I/O instructions never change a
\* register.
C40_InstructionFrames ==
    (last.valid /\ last.ran)
    => /\ last.word.Opcode \in {MOVR, LOAD, STORE, IIN, IOUT, RIN, ROUT, JZ, JG, JL, STOP}
          => FlagsOf(psw) = FlagsOf(last.pre.psw)
       /\ last.word.Opcode \in {ADDR, SUBR, MOVR, LOAD} => mem = last.pre.mem
       /\ last.word.Opcode \in MemoryOperandOpcodes => registers = last.pre.registers

\* LOAD run with the sign flag set by the instruction before it
C40_Witness ==
    /\ Executed(LOAD)
    /\ last.pre.psw.SignFlag /\ psw.SignFlag /\ ~psw.ZeroFlag

====
